---------------------------- MODULE Spec2Model ----------------------------
(***************************************************************************)
(* CoinGlass client (src/stream6.py): the HTTP transport _request, the     *)
(* instrument resolver get_available_pairs, the five fetch methods with    *)
(* their normalisation (time decoding, descending sort), and the display   *)
(* cycle of main.                                                          *)
(*                                                                         *)
(* Spec      the client's methods called one at a time by any caller.      *)
(* SpecMain  the Streamlit script main(), which calls them in its order.   *)
(***************************************************************************)
EXTENDS Integers, Sequences, FiniteSets

VARIABLES
    pc,                 \* position inside the current client call
    req,                \* the request of the current call: method, endpoint, params
    resp,               \* the HTTP response received by requests.get
    e,                  \* the exception bound by `except HTTPError as e` in _request
    exc,                \* the exception that left the method (type None: none)
    out,                \* the lines print() wrote during the current call
    df,                 \* the DataFrame a fetch method returned
    pairs,              \* the rows of the DataFrame get_available_pairs returned
    mpc,                \* position of the script main()
    coin,               \* main: the upper-cased text input
    selected_exchange,  \* main: the exchange chosen in the first selectbox
    selected_pair,      \* main: the instrument chosen in the second selectbox
    button,             \* main: whether "Fetch Data" was pressed for this run
    bound,              \* main: the fetch results bound to locals so far in this run
    ui                  \* main: the elements emitted to the page, in emission order

vars == <<pc, req, resp, e, exc, out, df, pairs,
          mpc, coin, selected_exchange, selected_pair, button, bound, ui>>

clientVars == <<pc, req, resp, e, exc, out, df, pairs>>
mainVars == <<mpc, coin, selected_exchange, selected_pair, button, bound, ui>>

-----------------------------------------------------------------------------
(* Bounds of the model.                                                    *)

MaxRows == 2            \* longest raw data array of an indicator response
MaxInstruments == 2     \* longest instrument list of one exchange

-----------------------------------------------------------------------------
(* Strings that the code upper-cases are sequences of characters.          *)

LowerChars == <<"b", "t", "c", "e", "h", "u", "s", "d">>
UpperChars == <<"B", "T", "C", "E", "H", "U", "S", "D">>

\* str.upper() on one character: a lower-case letter maps to its capital,
\* anything else is unchanged.
UpperChar(ch) ==
    IF \E i \in 1..Len(LowerChars) : LowerChars[i] = ch
    THEN UpperChars[CHOOSE i \in 1..Len(LowerChars) : LowerChars[i] = ch]
    ELSE ch

\* str.upper()
StrUpper(s) == [i \in 1..Len(s) |-> UpperChar(s[i])]

\* Coin symbols a caller or the user may type.
CoinInputs ==
    { <<>>,
      <<"b", "t", "c">>,
      <<"B", "T", "C">>,
      <<"Z", "Z", "Z", "Z">> }

\* Instrument descriptors the catalog may hold.
Instruments ==
    { [baseAsset |-> <<"B", "T", "C">>, quoteAsset |-> <<"U", "S", "D", "T">>,
       instrumentId |-> "BTCUSDT"],
      [baseAsset |-> <<"e", "t", "h">>, quoteAsset |-> <<"b", "t", "c">>,
       instrumentId |-> "ETHBTC"],
      [baseAsset |-> <<"E", "T", "H">>, quoteAsset |-> <<"U", "s", "d", "t">>,
       instrumentId |-> "ETHUSDT"] }

ExchangeOrders ==
    { <<>>, <<"Binance">>, <<"OKX">>, <<"Binance", "OKX">>, <<"OKX", "Binance">> }

InstrumentLists == UNION { [1..n -> Instruments] : n \in 0..MaxInstruments }

\* data["data"] of the catalog response: a JSON object, i.e. the sequence of
\* its (exchange, instruments) members in document order.
Catalogs ==
    UNION { { [i \in 1..Len(o) |-> [exchange |-> o[i], instruments |-> f[i]]] :
                f \in [1..Len(o) -> InstrumentLists] } : o \in ExchangeOrders }

-----------------------------------------------------------------------------
(* Indicator responses: a JSON array of flat objects.  An object is the    *)
(* sequence of its <<key, value>> members in document order.               *)

MsPerDay == 86400000
SecPerDay == 86400

MsTimes == {0, 3600000, MsPerDay}       \* two instants of day 0, one of day 1
SecTimes == {0, 3600, SecPerDay}
Values == {1, 2}

OiRecords ==
    { << <<"t", t>>, <<"o", 7>>, <<"c", c>> >> : t \in MsTimes, c \in Values }

RatioRecords ==
    { << <<"createTime", t>>, <<"longRatio", l>>, <<"shortRatio", 100 - l>> >> :
        t \in MsTimes, l \in Values }

\* Price records in the documented field order, and in another order with an
\* extra field.
PriceRecords ==
    { << <<"t", t>>, <<"o", 10>>, <<"h", 20>>, <<"l", 5>>, <<"c", c>>, <<"v", 100>> >> :
        t \in SecTimes, c \in Values }
    \cup
    { << <<"v", 100>>, <<"c", c>>, <<"x", 9>>, <<"l", 5>>, <<"h", 20>>, <<"o", 10>>,
         <<"t", t>> >> : t \in SecTimes, c \in Values }

Arrays(S) == UNION { [1..n -> S] : n \in 0..MaxRows }

FetchMethods ==
    { "fetch_ohlc_oi_data", "fetch_price_ohlc_data", "fetch_top_long_short_ratio",
      "fetch_top_long_short_position_ratio", "fetch_top_long_short_loser" }

\* The data arrays the provider may answer a method's request with.
RawArrays(m) ==
    CASE m = "fetch_ohlc_oi_data" -> Arrays(OiRecords)
      [] m = "fetch_price_ohlc_data" -> Arrays(PriceRecords)
      [] OTHER -> Arrays(RatioRecords)

Range(s) == { s[i] : i \in 1..Len(s) }

HasKey(obj, k) == \E i \in 1..Len(obj) : obj[i][1] = k

\* obj[k] of a JSON object
Get(obj, k) == obj[CHOOSE i \in 1..Len(obj) : obj[i][1] = k][2]

-----------------------------------------------------------------------------
(* pandas.  A DataFrame is its column labels and its rows; a row keeps the *)
(* index label it got at construction (its position in the input).        *)

NaN == -1

EmptyFrame == [columns |-> <<>>, rows |-> <<>>]

RECURSIVE KeysInOrder(_, _)
\* the column labels pd.DataFrame(list of dicts) infers: the keys in order
\* of first appearance
KeysInOrder(objs, acc) ==
    IF objs = <<>> THEN acc
    ELSE LET o == Head(objs)
             new == SelectSeq([i \in 1..Len(o) |-> o[i][1]],
                              LAMBDA k : k \notin Range(acc))
         IN KeysInOrder(Tail(objs), acc \o new)

\* pd.DataFrame(data, columns=columns): one row per object and exactly the
\* given columns; a key the object lacks is NaN.
DataFrameColumns(data, columns) ==
    [columns |-> columns,
     rows |-> [i \in 1..Len(data) |->
                 [idx |-> i - 1,
                  val |-> [c \in Range(columns) |->
                             IF HasKey(data[i], c) THEN Get(data[i], c) ELSE NaN]]]]

\* pd.DataFrame(data)
DataFrame(data) == DataFrameColumns(data, KeysInOrder(data, <<>>))

\* pd.to_datetime(v, unit=unit): the instant as (days since the epoch,
\* milliseconds into the day)
ToDatetime(v, unit) ==
    IF unit = "ms"
    THEN [days |-> v \div MsPerDay, ms |-> v % MsPerDay]
    ELSE [days |-> v \div SecPerDay, ms |-> (v % SecPerDay) * 1000]

\* .dt.date: the calendar date, as days since the epoch
DtDate(ts) == ts.days

\* a >= b on the values of a time column: dates are integers, datetimes
\* compare by day, then by time of day
TimeGeq(daily, a, b) ==
    IF daily THEN a >= b
    ELSE a.days > b.days \/ (a.days = b.days /\ a.ms >= b.ms)

InsertAt(s, k, x) == SubSeq(s, 1, k - 1) \o <<x>> \o SubSeq(s, k, Len(s))

\* sort_values(col) with the default ascending=True
SortBefore_Ascending(daily, x, y) == TimeGeq(daily, y, x)

\* the comparison sort_values(col, ascending=False) orders by: x may stand
\* before y
SortBefore(daily, x, y) == TimeGeq(daily, x, y)

RECURSIVE SortRows(_, _, _)
\* The orders sort_values(col, ascending=False) may give the rows: every
\* row inserted at a place that keeps the column descending.  The order of
\* rows with equal keys is not fixed by the default (quicksort) kind.
SortRows(rows, col, daily) ==
    IF rows = <<>> THEN { <<>> }
    ELSE LET x == Head(rows)
         IN UNION { { InsertAt(s, k, x) :
                        k \in { k \in 1..(Len(s) + 1) :
                                  /\ \A i \in 1..(k - 1) :
                                       SortBefore(daily, s[i].val[col], x.val[col])
                                  /\ \A i \in k..Len(s) :
                                       SortBefore(daily, x.val[col], s[i].val[col]) } } :
                    s \in SortRows(Tail(rows), col, daily) }

-----------------------------------------------------------------------------
(* The client: endpoints and per-method normalisation.                     *)

Endpoint(m) ==
    CASE m = "get_available_pairs" -> "/public/v2/instrument"
      [] m = "fetch_ohlc_oi_data" -> "/public/v2/indicator/open_interest_ohlc"
      [] m = "fetch_price_ohlc_data" -> "/public/v2/indicator/price_ohlc"
      [] m = "fetch_top_long_short_ratio" ->
             "/public/v2/indicator/top_long_short_account_ratio"
      [] m = "fetch_top_long_short_position_ratio" ->
             "/public/v2/indicator/top_long_short_position_ratio"
      [] m = "fetch_top_long_short_loser" -> "/public/v2/indicator/long_short_accounts"

\* the column holding the time
TimeField(m) ==
    IF m \in {"fetch_ohlc_oi_data", "fetch_price_ohlc_data"} THEN "t" ELSE "createTime"

\* the unit= argument of pd.to_datetime
TimeUnit(m) == IF m = "fetch_price_ohlc_data" THEN "s" ELSE "ms"

\* whether the method truncates the decoded time with .dt.date
Daily(m) == m \in {"fetch_ohlc_oi_data", "fetch_price_ohlc_data"}

PriceColumns == <<"t", "o", "h", "l", "c", "v">>

\* pd.DataFrame(request["data"]) for the price method too
BuildFrame_NoColumns(m, data) == DataFrame(data)

\* df = pd.DataFrame(request["data"] [, columns=...])
BuildFrame(m, data) ==
    IF m = "fetch_price_ohlc_data"
    THEN DataFrameColumns(data, PriceColumns)
    ELSE DataFrame(data)

\* the decoded value of the time column
DecodeTime(m, v) ==
    IF Daily(m) THEN DtDate(ToDatetime(v, TimeUnit(m)))
    ELSE ToDatetime(v, TimeUnit(m))

\* df[col] = pd.to_datetime(df[col], unit=...)[.dt.date]
DecodeColumn(m, f) ==
    [f EXCEPT !.rows =
        [i \in 1..Len(f.rows) |->
            [f.rows[i] EXCEPT !.val[TimeField(m)] = DecodeTime(m, @)]]]

\* drop_duplicates(col) before the sort
SortValues_DropDuplicates(m, f) ==
    { [f EXCEPT !.rows = r] :
        r \in SortRows(SelectSeq(f.rows,
                                 LAMBDA x : \A j \in 1..Len(f.rows) :
                                    f.rows[j].idx < x.idx =>
                                       f.rows[j].val[TimeField(m)] # x.val[TimeField(m)]),
                       TimeField(m), Daily(m)) }

\* df = df.sort_values(col, ascending=False): the frames it may give
SortValues(m, f) ==
    { [f EXCEPT !.rows = r] : r \in SortRows(f.rows, TimeField(m), Daily(m)) }

\* the comparison without .upper()
Matches_CaseSensitive(c, item) == c \in { item.baseAsset, item.quoteAsset }

\* the provider's symbol filter taken as exact
Matches_TrustProvider(c, item) == TRUE

\* the coin matches the instrument
Matches(c, item) ==
    StrUpper(c) \in { StrUpper(item.baseAsset), StrUpper(item.quoteAsset) }

\* pairs.insert(0, ...)
AppendPair_Front(ps, exchange, item) ==
    <<[exchange |-> exchange, instrumentId |-> item.instrumentId]>> \o ps

\* pairs.append({"exchange": exchange, "instrumentId": item["instrumentId"]})
AppendPair(ps, exchange, item) ==
    Append(ps, [exchange |-> exchange, instrumentId |-> item.instrumentId])

RECURSIVE InstrumentLoop(_, _, _, _)
\* for item in instruments: ...
InstrumentLoop(c, exchange, instruments, ps) ==
    IF instruments = <<>> THEN ps
    ELSE InstrumentLoop(c, exchange, Tail(instruments),
                        IF Matches(c, Head(instruments))
                        THEN AppendPair(ps, exchange, Head(instruments))
                        ELSE ps)

RECURSIVE ExchangeLoop(_, _, _)
\* for exchange, instruments in data["data"].items(): ...
ExchangeLoop(c, items, ps) ==
    IF items = <<>> THEN ps
    ELSE ExchangeLoop(c, Tail(items),
                      InstrumentLoop(c, Head(items).exchange, Head(items).instruments, ps))

\* get_available_pairs after the request: the rows of pd.DataFrame(pairs)
GetAvailablePairs(c, data) == ExchangeLoop(c, data, <<>>)

-----------------------------------------------------------------------------
(* Exceptions, responses and the neutral values of the call state.         *)

NoExc == [type |-> "None", status |-> 0]
HTTPError(status) == [type |-> "HTTPError", status |-> status]
JSONDecodeError == [type |-> "JSONDecodeError", status |-> 0]
KeyError == [type |-> "KeyError", status |-> 0]
IndexError == [type |-> "IndexError", status |-> 0]

NoReq == [method |-> "none", endpoint |-> "", params |-> <<>>]
NoResp == [status |-> 0, json |-> FALSE, body |-> [text |-> ""]]

Statuses == {200, 304, 429, 500}

\* Response.raise_for_status() raises for the 4xx and 5xx codes only
IsErrorStatus(status) == 400 <= status /\ status < 600

\* what the provider may have listed for a method
Payloads(m) == IF m = "get_available_pairs" THEN Catalogs ELSE RawArrays(m)

\* The responses requests.get may return to a method: a payload under a
\* code that is no error, an error code with a structured error body, or
\* any code with a body that is not JSON.
Responses(m) ==
    { [status |-> s, json |-> TRUE, body |-> [data |-> d]] :
        s \in { s \in Statuses : ~IsErrorStatus(s) }, d \in Payloads(m) }
    \cup { [status |-> s, json |-> TRUE, body |-> [msg |-> "error"]] :
             s \in { s \in Statuses : IsErrorStatus(s) } }
    \cup { [status |-> s, json |-> FALSE, body |-> [text |-> "not json"]] :
             s \in Statuses }

\* a handler for another exception type
CaughtByDecodeHandler_KeyError(err) == err.type = "KeyError"

\* `except json.JSONDecodeError:` around e.response.json()
CaughtByDecodeHandler(err) == err.type = "JSONDecodeError"

\* `except requests.exceptions.HTTPError as err:` of the fetch methods;
\* get_available_pairs has no handler
CaughtByFetchHandler(m, err) == m \in FetchMethods /\ err.type = "HTTPError"

\* `raise e` in _request
RequestRaise(err) == err

\* raise RuntimeError(...) in place of the bare raise
FetchReraise_Wrapped(err) == [type |-> "RuntimeError", status |-> err.status]

\* the bare `raise` in a fetch method's handler
FetchReraise(err) == err

-----------------------------------------------------------------------------
(* One client call, step by step.                                          *)

\* a method is entered: it builds endpoint and params and calls _request
Enter(m, params) ==
    /\ req' = [method |-> m, endpoint |-> Endpoint(m), params |-> params]
    /\ pc' = "get"
    /\ resp' = NoResp
    /\ e' = NoExc
    /\ exc' = NoExc
    /\ out' = <<>>
    /\ df' = EmptyFrame
    /\ pairs' = <<>>

FetchParams(exchange, pair) ==
    [ex |-> exchange, pair |-> pair, interval |-> "h24", limit |-> 50]

\* response = requests.get(url, headers=self.headers, params=params)
HttpGet ==
    /\ pc = "get"
    /\ \E r \in Responses(req.method) : resp' = r
    /\ pc' = "raise_for_status"
    /\ UNCHANGED <<req, e, exc, out, df, pairs>>

\* response.raise_for_status()
RaiseForStatus ==
    /\ pc = "raise_for_status"
    /\ IF IsErrorStatus(resp.status)
       THEN e' = HTTPError(resp.status) /\ pc' = "except"
       ELSE e' = e /\ pc' = "json"
    /\ UNCHANGED <<req, resp, exc, out, df, pairs>>

\* return response.json(): a body that is not JSON raises a decode error,
\* which no handler on the way out catches
ResponseJson ==
    /\ pc = "json"
    /\ IF resp.json
       THEN exc' = exc /\ pc' = "body"
       ELSE exc' = JSONDecodeError /\ pc' = "raised"
    /\ UNCHANGED <<req, resp, e, out, df, pairs>>

\* print(error_msg)
PrintErrorMsg ==
    /\ pc = "except"
    /\ out' = Append(out, [line |-> "HTTP error occurred", status |-> e.status])
    /\ pc' = "decode"
    /\ UNCHANGED <<req, resp, e, exc, df, pairs>>

\* try: error_details = e.response.json() ... except json.JSONDecodeError: ...
DecodeErrorBody ==
    /\ pc = "decode"
    /\ IF resp.json
       THEN /\ out' = Append(out, [line |-> "Error details", status |-> 0])
            /\ exc' = exc
            /\ pc' = "reraise"
       ELSE IF CaughtByDecodeHandler(JSONDecodeError)
            THEN /\ out' = Append(out, [line |-> "No detailed error message", status |-> 0])
                 /\ exc' = exc
                 /\ pc' = "reraise"
            ELSE /\ out' = out
                 /\ exc' = JSONDecodeError
                 /\ pc' = "raised"
    /\ UNCHANGED <<req, resp, e, df, pairs>>

\* raise e: into the fetch method's handler, or out of get_available_pairs
RaiseFromRequest ==
    /\ pc = "reraise"
    /\ IF CaughtByFetchHandler(req.method, RequestRaise(e))
       THEN exc' = exc /\ pc' = "fetch_except"
       ELSE exc' = RequestRaise(e) /\ pc' = "raised"
    /\ UNCHANGED <<req, resp, e, out, df, pairs>>

\* except requests.exceptions.HTTPError as err: print(...); raise
FetchExcept ==
    /\ pc = "fetch_except"
    /\ out' = Append(out, [line |-> "HTTP error occurred: err", status |-> e.status])
    /\ exc' = FetchReraise(RequestRaise(e))
    /\ pc' = "raised"
    /\ UNCHANGED <<req, resp, e, df, pairs>>

\* get_available_pairs, lines 51-62
PairsBody ==
    /\ pc = "body"
    /\ req.method = "get_available_pairs"
    /\ pairs' = GetAvailablePairs(req.params.symbol, resp.body.data)
    /\ pc' = "returned"
    /\ UNCHANGED <<req, resp, e, exc, out, df>>

\* a fetch method after the request: build the frame, decode the time
\* column (KeyError when the frame has no such column), sort, return
FetchBody ==
    /\ pc = "body"
    /\ req.method \in FetchMethods
    /\ LET f == BuildFrame(req.method, resp.body.data)
       IN IF TimeField(req.method) \notin Range(f.columns)
          THEN exc' = KeyError /\ pc' = "raised" /\ df' = df
          ELSE /\ \E g \in SortValues(req.method, DecodeColumn(req.method, f)) : df' = g
               /\ exc' = exc
               /\ pc' = "returned"
    /\ UNCHANGED <<req, resp, e, out, pairs>>

Step ==
    \/ HttpGet
    \/ RaiseForStatus
    \/ ResponseJson
    \/ PrintErrorMsg
    \/ DecodeErrorBody
    \/ RaiseFromRequest
    \/ FetchExcept
    \/ PairsBody
    \/ FetchBody

-----------------------------------------------------------------------------
(* Spec: any caller, one call at a time.                                   *)

CallArgs == { <<"Binance", "BTCUSDT">>, <<"OKX", "ETHUSDT">> }

Finished == pc \in {"idle", "returned", "raised"}

CallGetAvailablePairs ==
    /\ Finished
    /\ \E c \in CoinInputs : Enter("get_available_pairs", [symbol |-> c])
    /\ UNCHANGED mainVars

CallFetch ==
    /\ Finished
    /\ \E m \in FetchMethods, a \in CallArgs : Enter(m, FetchParams(a[1], a[2]))
    /\ UNCHANGED mainVars

ClientStep == Step /\ UNCHANGED mainVars

Init ==
    /\ pc = "idle"
    /\ req = NoReq
    /\ resp = NoResp
    /\ e = NoExc
    /\ exc = NoExc
    /\ out = <<>>
    /\ df = EmptyFrame
    /\ pairs = <<>>
    /\ mpc = "start"
    /\ coin = <<>>
    /\ selected_exchange = ""
    /\ selected_pair = ""
    /\ button = FALSE
    /\ bound = {}
    /\ ui = <<>>

Next == CallGetAvailablePairs \/ CallFetch \/ ClientStep

Spec == Init /\ [][Next]_vars

-----------------------------------------------------------------------------
(* SpecMain: the script main().  Streamlit runs it from the top on every   *)
(* interaction, with the widgets' current values.                          *)

Element(kind, label, value) == [kind |-> kind, label |-> label, value |-> value]

\* the data columns of main, in the order the script fills them
Columns == 1..5

\* the fetch method a column calls
ColMethod(k) ==
    CASE k = 1 -> "fetch_ohlc_oi_data"
      [] k = 2 -> "fetch_price_ohlc_data"
      [] k = 3 -> "fetch_top_long_short_ratio"
      [] k = 4 -> "fetch_top_long_short_position_ratio"
      [] k = 5 -> "fetch_top_long_short_loser"

\* the local the result is bound to
ColLocal(k) ==
    CASE k = 1 -> "ohlc_oi_data"
      [] k = 2 -> "price_ohlc_data"
      [] k = 3 -> "long_short_data"
      [] k = 4 -> "top_traders_data"
      [] k = 5 -> "L_data"

\* the label of the column's st.metric
ColLabel(k) ==
    CASE k = 1 -> "Open Interest"
      [] k = 2 -> "Price"
      [] k = 3 -> "Top Accounts Ratio"
      [] k = 4 -> "Top Traders Position  Ratios"
      [] k = 5 -> "All Accounts Ratio"

\* the position the column's summary reads with .iloc[...]
ColIloc(k) == IF k \in {1, 5} THEN -1 ELSE 0

\* the fields the column's summary shows
ColFields(k) == IF k \in {1, 2} THEN <<"c">> ELSE <<"longRatio", "shortRatio">>

\* whether df.iloc[i] raises IndexError
IlocOutOfRange(f, i) == IF i >= 0 THEN i >= Len(f.rows) ELSE -i > Len(f.rows)

\* df.iloc[i]: the row at position i, counted from the end when negative
Iloc(f, i) == IF i >= 0 THEN f.rows[i + 1] ELSE f.rows[Len(f.rows) + 1 + i]

\* the value the column's st.metric shows
Summary(k, f) ==
    [j \in 1..Len(ColFields(k)) |-> Iloc(f, ColIloc(k)).val[ColFields(k)[j]]]

\* the charts drawn right after the third column
AfterColumn_SkipFourth(k) ==
    CASE k = 1 -> "col2"
      [] k = 2 -> "col3"
      [] k = 3 -> "charts"
      [] k = 4 -> "charts"
      [] k = 5 -> "done"

\* where the script continues after a column's metric
AfterColumn(k) ==
    CASE k = 1 -> "col2"
      [] k = 2 -> "col3"
      [] k = 3 -> "col4"
      [] k = 4 -> "charts"
      [] k = 5 -> "done"

\* the script position at which a column issues its fetch
ColStart(k) ==
    CASE k = 1 -> "col1"
      [] k = 2 -> "col2"
      [] k = 3 -> "col3"
      [] k = 4 -> "col4"
      [] k = 5 -> "bot2"

\* the script position at which a column waits for its fetch method
Waiting == <<"col1_fetch", "col2_fetch", "col3_fetch", "col4_fetch", "bot2_fetch">>

\* the script position at which a column reads its summary
AtMetric == <<"col1_metric", "col2_metric", "col3_metric", "col4_metric", "col5_metric">>

ResetClient ==
    /\ pc' = "idle"
    /\ req' = NoReq
    /\ resp' = NoResp
    /\ e' = NoExc
    /\ exc' = NoExc
    /\ out' = <<>>
    /\ df' = EmptyFrame
    /\ pairs' = <<>>

\* A run of the script begins: title, text input, and, for a non-empty
\* coin, the call of get_available_pairs.
RunScript ==
    /\ mpc \in {"start", "done", "stopped"}
    /\ \E text \in CoinInputs, b \in BOOLEAN :
         /\ coin' = StrUpper(text)
         /\ button' = b
         /\ IF StrUpper(text) = <<>>
            THEN ResetClient /\ mpc' = "done"
            ELSE Enter("get_available_pairs", [symbol |-> StrUpper(text)]) /\ mpc' = "pairs"
    /\ ui' = << Element("title", "Coin Advanced Metrics", <<>>) >>
    /\ selected_exchange' = ""
    /\ selected_pair' = ""
    /\ bound' = {}

\* available_pairs_df is back: nothing more when it is empty; otherwise the
\* two selectboxes, and the fetches when the button was pressed.  The frame
\* is not read after the selectboxes.
SelectPair ==
    /\ mpc = "pairs"
    /\ pc = "returned"
    /\ IF pairs = <<>>
       THEN /\ mpc' = "done"
            /\ UNCHANGED <<selected_exchange, selected_pair, ui>>
       ELSE \E i \in 1..Len(pairs) :
              /\ selected_exchange' = pairs[i].exchange
              /\ selected_pair' = pairs[i].instrumentId
              /\ ui' = ui \o << Element("selectbox", "Select Exchange", <<>>),
                               Element("selectbox", "Select Pair", <<>>) >>
              /\ mpc' = IF button THEN "col1" ELSE "done"
    /\ UNCHANGED <<coin, button, bound>>
    /\ UNCHANGED clientVars

\* a column calls its fetch method
ColFetch(k) ==
    /\ mpc = ColStart(k)
    /\ Enter(ColMethod(k), FetchParams(selected_exchange, selected_pair))
    /\ mpc' = Waiting[k]
    /\ UNCHANGED <<coin, selected_exchange, selected_pair, button, bound, ui>>

\* the fetch method returned: its record is bound to the column's local
ColReturn(k) ==
    /\ mpc = Waiting[k]
    /\ pc = "returned"
    /\ bound' = bound \cup {ColLocal(k)}
    /\ mpc' = AtMetric[k]
    /\ UNCHANGED <<coin, selected_exchange, selected_pair, button, ui>>
    /\ UNCHANGED clientVars

\* the elements a column emits once its record is there: its metric, and
\* for the last column the "Total Accounts" chart before it
ColElements(k) ==
    IF k = 5
    THEN << Element("chart", "Total Accounts", <<>>),
            Element("metric", ColLabel(k), Summary(k, df)) >>
    ELSE << Element("metric", ColLabel(k), Summary(k, df)) >>

\* latest = df.iloc[...][...]; st.metric(...): IndexError on an empty
\* record ends the run with the exception shown
ColMetric(k) ==
    /\ mpc = AtMetric[k]
    /\ IF IlocOutOfRange(df, ColIloc(k))
       THEN /\ ui' = Append(ui, Element("exception", IndexError.type, <<>>))
            /\ mpc' = "stopped"
       ELSE /\ ui' = ui \o ColElements(k)
            /\ mpc' = AfterColumn(k)
    /\ UNCHANGED <<coin, selected_exchange, selected_pair, button, bound>>
    /\ UNCHANGED clientVars

\* the four st.plotly_chart calls of the top and bottom rows
ShowCharts ==
    /\ mpc = "charts"
    /\ ui' = ui \o << Element("chart", "Price", <<>>),
                     Element("chart", "Open Interest", <<>>),
                     Element("chart", "Top Traders Accounts Ratio", <<>>),
                     Element("chart", "Top Traders Accounts Ratio", <<>>) >>
    /\ mpc' = "bot2"
    /\ UNCHANGED <<coin, selected_exchange, selected_pair, button, bound>>
    /\ UNCHANGED clientVars

\* an exception left a client method: main catches nothing, the run ends
\* with the exception shown
Uncaught ==
    /\ mpc \notin {"start", "done", "stopped"}
    /\ pc = "raised"
    /\ ui' = Append(ui, Element("exception", exc.type, <<>>))
    /\ mpc' = "stopped"
    /\ UNCHANGED <<coin, selected_exchange, selected_pair, button, bound>>
    /\ UNCHANGED clientVars

MainNext ==
    \/ RunScript
    \/ SelectPair
    \/ \E k \in Columns : ColFetch(k)
    \/ \E k \in Columns : ColReturn(k)
    \/ \E k \in Columns : ColMetric(k)
    \/ ShowCharts
    \/ Uncaught
    \/ ClientStep

SpecMain == Init /\ [][MainNext]_vars

-----------------------------------------------------------------------------
(* Properties of get_available_pairs (Spec).                               *)

PairsReturned == pc = "returned" /\ req.method = "get_available_pairs"

PairOf(exchange, item) == [exchange |-> exchange, instrumentId |-> item.instrumentId]

\* the upper-cased coin equals the upper-cased base or quote asset
UpperEqual(c, item) ==
    \/ StrUpper(c) = StrUpper(item.baseAsset)
    \/ StrUpper(c) = StrUpper(item.quoteAsset)

\* C1: get_available_pairs returns the (exchange, instrumentId) entry of an
\* instrument of the payload if and only if the upper-cased coin equals the
\* instrument's upper-cased base or quote asset; every returned entry is the
\* entry of such an instrument.
C1_PairsIffMatch ==
    PairsReturned =>
        LET c == req.params.symbol
            data == resp.body.data
        IN /\ \A k \in 1..Len(data) : \A j \in 1..Len(data[k].instruments) :
                LET item == data[k].instruments[j]
                IN (\E p \in 1..Len(pairs) : pairs[p] = PairOf(data[k].exchange, item))
                      <=> UpperEqual(c, item)
           /\ \A p \in 1..Len(pairs) :
                \E k \in 1..Len(data) : \E j \in 1..Len(data[k].instruments) :
                    /\ pairs[p] = PairOf(data[k].exchange, data[k].instruments[j])
                    /\ UpperEqual(c, data[k].instruments[j])

\* a lower-case coin matched an instrument through its lower-case quote
\* asset and through an upper-case base asset, and another was left out
C1_Witness ==
    /\ PairsReturned
    /\ req.params.symbol = <<"b", "t", "c">>
    /\ \E p, q \in 1..Len(pairs) :
         pairs[p].instrumentId = "ETHBTC" /\ pairs[q].instrumentId = "BTCUSDT"
    /\ \E k \in 1..Len(resp.body.data) :
         \E j \in 1..Len(resp.body.data[k].instruments) :
            resp.body.data[k].instruments[j].instrumentId = "ETHUSDT"

NoInstrumentMatches ==
    \A k \in 1..Len(resp.body.data) :
        \A j \in 1..Len(resp.body.data[k].instruments) :
            ~UpperEqual(req.params.symbol, resp.body.data[k].instruments[j])

\* C6: after a successful catalog response in which no instrument matches
\* the coin, get_available_pairs has returned, its result is empty and no
\* exception was raised.
C6_NoMatchEmptyResult ==
    ( /\ pc \in {"returned", "raised"}
      /\ req.method = "get_available_pairs"
      /\ resp.status = 200
      /\ resp.json
      /\ NoInstrumentMatches )
    => (pc = "returned" /\ pairs = <<>> /\ exc = NoExc)

\* a catalog with an empty instrument list and a non-matching instrument
\* gave the empty result
C6_Witness ==
    /\ PairsReturned
    /\ resp.status = 200
    /\ req.params.symbol = <<"Z", "Z", "Z", "Z">>
    /\ Len(resp.body.data) = 2
    /\ resp.body.data[1].instruments = <<>>
    /\ resp.body.data[2].instruments # <<>>
    /\ pairs = <<>>

RECURSIVE Flatten(_)
\* the (exchange, instrumentId) entries of the payload, exchange by exchange
Flatten(data) ==
    IF data = <<>> THEN <<>>
    ELSE [j \in 1..Len(Head(data).instruments) |->
            PairOf(Head(data).exchange, Head(data).instruments[j])]
         \o Flatten(Tail(data))

RECURSIVE IsSubsequence(_, _)
IsSubsequence(a, b) ==
    IF a = <<>> THEN TRUE
    ELSE IF b = <<>> THEN FALSE
    ELSE IF Head(a) = Head(b) THEN IsSubsequence(Tail(a), Tail(b))
    ELSE IsSubsequence(a, Tail(b))

\* C7: the entries get_available_pairs returns are a subsequence of the
\* payload's flattened (exchange, instrument) sequence: payload order, no
\* re-sorting.
C7_PayloadOrder ==
    PairsReturned => IsSubsequence(pairs, Flatten(resp.body.data))

\* entries of two exchanges, two of them of the same exchange, came back
C7_Witness ==
    /\ PairsReturned
    /\ Len(pairs) >= 3
    /\ pairs[1].exchange = "OKX"
    /\ pairs[2].exchange = "OKX"
    /\ pairs[1].instrumentId # pairs[2].instrumentId
    /\ pairs[3].exchange = "Binance"

-----------------------------------------------------------------------------
(* Properties of the fetch methods (Spec).                                 *)

FetchReturned == pc = "returned" /\ req.method \in FetchMethods

TimeOf(m, row) == row.val[TimeField(m)]

\* C2: the record a fetch method returns is ordered by decoded time
\* non-increasing: an earlier position never holds an earlier time than a
\* later position.
C2_DescendingTime ==
    FetchReturned =>
        \A i, j \in 1..Len(df.rows) :
            i < j => TimeGeq(Daily(req.method), TimeOf(req.method, df.rows[i]),
                                                TimeOf(req.method, df.rows[j]))

\* the provider listed an older point before a newer one of the same day
C2_Witness ==
    /\ FetchReturned
    /\ req.method = "fetch_top_long_short_ratio"
    /\ Len(resp.body.data) = 2
    /\ Get(resp.body.data[1], "createTime") = 0
    /\ Get(resp.body.data[2], "createTime") = 3600000
    /\ df.rows[1].idx = 1

\* the raw object a row of the returned frame was built from
RawOf(row) == resp.body.data[row.idx + 1]

\* C9: the returned record holds exactly the points of the raw data array,
\* each once: as many rows as raw points, every raw position exactly once,
\* and each row carries its raw point's values, the time decoded.
C9_Permutation ==
    FetchReturned =>
        /\ Len(df.rows) = Len(resp.body.data)
        /\ \A i \in 1..Len(resp.body.data) :
              Cardinality({ r \in 1..Len(df.rows) : df.rows[r].idx = i - 1 }) = 1
        /\ \A r \in 1..Len(df.rows) :
              \A c \in DOMAIN df.rows[r].val :
                 df.rows[r].val[c] =
                    IF c = TimeField(req.method)
                    THEN DecodeTime(req.method, Get(RawOf(df.rows[r]), c))
                    ELSE Get(RawOf(df.rows[r]), c)

\* two daily points of the same calendar date, and two points with the same
\* timestamp, were both kept
C9_Witness ==
    /\ FetchReturned
    /\ req.method = "fetch_ohlc_oi_data"
    /\ Len(resp.body.data) = 2
    /\ Get(resp.body.data[1], "t") = 0
    /\ Get(resp.body.data[2], "t") \in {0, 3600000}
    /\ Len(df.rows) = 2
    /\ df.rows[1].val["t"] = df.rows[2].val["t"]

PriceReturned == pc = "returned" /\ req.method = "fetch_price_ohlc_data"

\* C5 as stated: the points of the price record have exactly the six fields
\* and every one of them, t included, has the value the provider gave.
C5_Original ==
    PriceReturned =>
        /\ Range(df.columns) = {"t", "o", "h", "l", "c", "v"}
        /\ \A r \in 1..Len(df.rows) :
              /\ DOMAIN df.rows[r].val = {"t", "o", "h", "l", "c", "v"}
              /\ \A c \in {"t", "o", "h", "l", "c", "v"} :
                    df.rows[r].val[c] = Get(RawOf(df.rows[r]), c)

\* C5: the points of the price record have exactly the six fields t, o, h,
\* l, c, v; o, h, l, c and v have the value the provider gave under that
\* name, and t is the calendar date (days since the epoch) of the provider's
\* t read as epoch seconds.
C5_SixFields ==
    PriceReturned =>
        /\ df.columns = <<"t", "o", "h", "l", "c", "v">>
        /\ \A r \in 1..Len(df.rows) :
              /\ DOMAIN df.rows[r].val = {"t", "o", "h", "l", "c", "v"}
              /\ \A c \in {"o", "h", "l", "c", "v"} :
                    df.rows[r].val[c] = Get(RawOf(df.rows[r]), c)
              /\ df.rows[r].val["t"] * 86400 <= Get(RawOf(df.rows[r]), "t")
              /\ Get(RawOf(df.rows[r]), "t") < (df.rows[r].val["t"] + 1) * 86400

\* the provider sent a record with an extra field and its fields in another
\* order, and one in the documented order
C5_Witness ==
    /\ PriceReturned
    /\ Len(df.rows) = 2
    /\ \E r \in 1..2 : HasKey(resp.body.data[r], "x") /\ resp.body.data[r][1][1] = "v"
    /\ \E r \in 1..2 : ~HasKey(resp.body.data[r], "x")
    /\ \E r \in 1..2 : df.rows[r].val["t"] = 1

-----------------------------------------------------------------------------
(* Properties of the error path (Spec).                                    *)

FetchFinished == pc \in {"returned", "raised"} /\ req.method \in FetchMethods

\* C3 as stated: after a non-2xx response a fetch method has raised the
\* HTTP error carrying the status and returned no record.
C3_Original ==
    (FetchFinished /\ ~(200 <= resp.status /\ resp.status <= 299))
    => (pc = "raised" /\ exc = HTTPError(resp.status) /\ df = EmptyFrame)

\* C3: after a 4xx or 5xx response, the error that leaves _request is the
\* HTTP error carrying that status, the same error leaves the fetch method,
\* and the method returns no record.
C3_HttpErrorPropagates ==
    /\ (FetchFinished /\ 400 <= resp.status /\ resp.status <= 599)
          => (pc = "raised" /\ exc = e /\ exc = HTTPError(resp.status) /\ df = EmptyFrame)
    /\ pc = "fetch_except" => (e = HTTPError(resp.status) /\ df = EmptyFrame)

\* a fetch method raised the 429 error after both diagnostics were printed
C3_Witness ==
    /\ pc = "raised"
    /\ req.method = "fetch_ohlc_oi_data"
    /\ resp.status = 429
    /\ exc = HTTPError(429)
    /\ Len(out) = 3

\* the decoding of the error body has been attempted
DecodeAttempted ==
    \E i \in 1..Len(out) : out[i].line \in {"Error details", "No detailed error message"}

-----------------------------------------------------------------------------
(* Properties of main (SpecMain).                                          *)

Shown(kind, label) == \E i \in 1..Len(ui) : ui[i].kind = kind /\ ui[i].label = label

\* the rows of a returned record with the greatest decoded time
LatestRows(m, f) ==
    { i \in 1..Len(f.rows) :
        \A j \in 1..Len(f.rows) :
            TimeGeq(Daily(m), TimeOf(m, f.rows[i]), TimeOf(m, f.rows[j])) }

\* C4: the summary a column displays is read from a point with the
\* greatest decoded time of the record its fetch method returned.
C4_SummaryIsLatest ==
    \A k \in Columns :
        ( /\ pc = "returned"
          /\ req.method = ColMethod(k)
          /\ mpc = AfterColumn(k)
          /\ ui[Len(ui)].kind = "metric" )
        => \E i \in LatestRows(ColMethod(k), df) :
              ui[Len(ui)].value =
                 [j \in 1..Len(ColFields(k)) |-> df.rows[i].val[ColFields(k)[j]]]

AllLocals == { ColLocal(k) : k \in Columns }

\* C10 as stated: no metric and no chart is on the page before all five
\* fetches have returned.
C10_Original ==
    (\E i \in 1..Len(ui) : ui[i].kind \in {"metric", "chart"}) => bound = AllLocals

\* C10: a column's metric is on the page only after its own fetch has
\* returned, and the charts only after the fetches they draw have returned:
\* the four charts of the two rows after the first four, the "Total
\* Accounts" chart after the fifth.
C10_MetricAfterOwnFetch ==
    /\ \A k \in Columns : Shown("metric", ColLabel(k)) => ColLocal(k) \in bound
    /\ (\E i \in 1..Len(ui) : ui[i].kind = "chart")
          => { ColLocal(k) : k \in 1..4 } \subseteq bound
    /\ Shown("chart", "Total Accounts") => ColLocal(5) \in bound

\* the second fetch failed with the first column's metric already shown
C10_Witness ==
    /\ mpc = "stopped"
    /\ Shown("metric", "Open Interest")
    /\ Shown("exception", "HTTPError")
    /\ bound = {"ohlc_oi_data"}

=============================================================================
